---- MODULE Spec2Model ----
(***************************************************************************)
(* Model of ImportApp.py: the dataset registry (DATASETS), validate_data   *)
(* and the Streamlit upload handler that validates every sheet of the      *)
(* chosen dataset and appends the sheets to the database on Save.          *)
(*                                                                         *)
(* Two specifications:                                                     *)
(*   SpecValidate  one or two calls of validate_data on a bounded table    *)
(*                 and sheet config, one action per check of the function; *)
(*   Spec          runs of the upload handler over DATASETS.               *)
(*                                                                         *)
(* pandas behaviour assumed (pandas 1.x / 2.x, object columns):            *)
(*   to_datetime / to_numeric with errors='coerce' turn an unparseable or  *)
(*   a null cell into the null marker; astype(str) turns the null marker   *)
(*   into the text "nan"; DataFrame.sum(axis=1) skips nulls (an all-null   *)
(*   row sums to 0); df[col] on an absent column raises KeyError.          *)
(* Cells are parsed one by one.  For the cell values modelled no conversion *)
(* raises, so the except branch of lines 101-102 is never taken.  Not       *)
(* modelled: create_tables, highlight_errors and all_error_locations,       *)
(* which only feed the display, and the st.write / st.markdown output.      *)
(***************************************************************************)
EXTENDS Integers, Sequences, FiniteSets, TLC

VARIABLES
    \* ---- one activation of validate_data (lines 64-138)
    df,               \* the table, mutated in place
    config,           \* the sheet config
    check_results,    \* dict check name -> (passed, message)
    error_locations,  \* list of (row_index, column_name)
    invalid_rows,     \* local of Check 4: invalid_checksums.index.tolist()
    ret,              \* the returned tuple, once the function has returned
    pc,               \* position in validate_data
    df_in,            \* the table as it was passed in
    call,             \* 1 or 2: which call of validate_data this is
    first,            \* what call 1 returned, during call 2
    \* ---- the upload handler (lines 160-216)
    hpc,              \* position in the script run
    dataset,          \* st.selectbox value
    uploaded_file,    \* the workbook: sheet_name -> table
    clicked,          \* st.button("Save") returns True in this run
    save_shown,       \* the Save button was rendered by the last run
    i,                \* loop index of "for sheet in sheets" (line 171)
    all_dfs, all_check_results, all_errors, all_valid,
    k,                \* loop index of the Save loop (line 208)
    msgs,             \* st.error / st.success calls of this run, in order
    db,               \* the database: the to_sql appends, in order
    runs              \* script runs so far

vvars == <<df, config, check_results, error_locations, invalid_rows, ret, pc,
           df_in, call, first>>
hvars == <<hpc, dataset, uploaded_file, clicked, save_shown, i, all_dfs,
           all_check_results, all_errors, all_valid, k, msgs, db, runs>>
vars == <<vvars, hvars>>

----------------------------------------------------------------------------
(* Bounds *)

\* rows of a table passed to validate_data in SpecValidate
MaxRows == 2
\* script runs of the upload handler in Spec
MaxRuns == 3

----------------------------------------------------------------------------
(* Cell values.  k is the kind of the Python object in the cell. *)

Null == [k |-> "null", s |-> "", n |-> 0]
Str(t) == [k |-> "str", s |-> t, n |-> 0]
Num(x) == [k |-> "float", s |-> "", n |-> x]
Timestamp(d) == [k |-> "datetime", s |-> "", n |-> d]

isnull(v) == v.k = "null"

\* the texts the parsers accept, with the value each parses to
FloatOfText == ("1" :> 1) @@ ("100" :> 100) @@ ("-5" :> (0 - 5))
DateOfText == ("2024-01-01" :> 20240101)

\* pd.to_datetime(x, errors='coerce') on one cell
to_datetime(v) ==
    CASE v.k = "null" -> Null
      [] v.k = "datetime" -> v
      [] v.k = "str" -> IF v.s \in DOMAIN DateOfText
                          THEN Timestamp(DateOfText[v.s])
                          ELSE Null

\* mutant of to_numeric: a parser that accepts text only and rejects a cell
\* that already holds a number
to_numeric_textonly(v) ==
    CASE v.k = "null" -> Null
      [] v.k = "float" -> Null
      [] v.k = "str" -> IF v.s \in DOMAIN FloatOfText
                          THEN Num(FloatOfText[v.s])
                          ELSE Null

\* pd.to_numeric(x, errors='coerce') on one cell
to_numeric(v) ==
    CASE v.k = "null" -> Null
      [] v.k = "float" -> v
      [] v.k = "str" -> IF v.s \in DOMAIN FloatOfText
                          THEN Num(FloatOfText[v.s])
                          ELSE Null

\* Series.astype(str) on one cell: str(x); the null marker becomes "nan"
astype_str(v) ==
    CASE v.k = "null" -> Str("nan")
      [] v.k = "str" -> v

----------------------------------------------------------------------------
(* Tables (DataFrame): ordered columns, RangeIndex 0..nrows-1, one Series  *)
(* per column.                                                             *)

Range(s) == {s[j] : j \in 1..Len(s)}
Index(t) == [j \in 1..t.nrows |-> j - 1]
Rows(t) == 0..(t.nrows - 1)
Columns(t) == Range(t.columns)

EmptyTable == [columns |-> <<>>, nrows |-> 0, data |-> <<>>]

\* df[col] = values
SetColumn(t, col, values) ==
    [columns |-> IF col \in Columns(t) THEN t.columns ELSE Append(t.columns, col),
     nrows |-> t.nrows,
     data |-> [c \in Columns(t) \cup {col} |-> IF c = col THEN values ELSE t.data[c]]]

\* df.drop(col, axis=1, inplace=True)
DropColumn(t, col) ==
    [columns |-> SelectSeq(t.columns, LAMBDA c : c # col),
     nrows |-> t.nrows,
     data |-> [c \in Columns(t) \ {col} |-> t.data[c]]]

\* df[df[col].isnull()].index.tolist()
NullRows(t, col) == SelectSeq(Index(t), LAMBDA r : isnull(t.data[col][r]))

\* [(idx, col) for idx in rows]
Locations(rows, col) == [j \in 1..Len(rows) |-> <<rows[j], col>>]

----------------------------------------------------------------------------
(* DATASETS (lines 12-49).  sheet_name 0 is written "0".                   *)

Col(name, dtype) == [name |-> name, dtype |-> dtype]

Sheet(sheet_name, table_name, columns, required_cols, numeric_cols) ==
    [sheet_name |-> sheet_name, table_name |-> table_name, columns |-> columns,
     required_cols |-> required_cols, numeric_cols |-> numeric_cols]

DATASETS ==
    [Valuations |->
        <<Sheet("0", "valuations",
                <<Col("date", "datetime"), Col("asset", "str"), Col("value", "float")>>,
                <<"date", "asset", "value">>, <<"value">>)>>,
     Risk |->
        <<Sheet("0", "risk",
                <<Col("date", "datetime"), Col("risk_factor", "str"),
                  Col("exposure", "float")>>,
                <<"date", "risk_factor", "exposure">>, <<"exposure">>)>>,
     PnL |->
        <<Sheet("Actuals", "pnl_actuals",
                <<Col("date", "datetime"), Col("account", "str"),
                  Col("profit_loss", "float")>>,
                <<"date", "account", "profit_loss">>, <<"profit_loss">>),
          Sheet("KPIs", "pnl_kpis",
                <<Col("date", "datetime"), Col("kpi_type", "str"),
                  Col("kpi_name", "str"), Col("kpi_value", "float")>>,
                <<"date", "kpi_type", "kpi_name", "kpi_value">>, <<"kpi_value">>)>>]

ColumnNames(cfg) == {cfg.columns[j].name : j \in 1..Len(cfg.columns)}

----------------------------------------------------------------------------
(* validate_data (lines 64-138), one operator per check.                   *)

CheckOrder ==
    <<"Columns Check", "Data Types Check", "Missing Values Check", "Checksum Check">>

\* a check's message: the f-string's fixed text and the values formatted into it
Msg(text, sheet, cols, detail, count) ==
    [text |-> text, sheet |-> sheet, cols |-> cols, detail |-> detail, count |-> count]

CheckResult(passed, msg) == [passed |-> passed, msg |-> msg]

\* the orders in which iterating a Python set of strings can yield its elements
SetOrders(S) ==
    {o \in [1..Cardinality(S) -> S] : \A a, b \in 1..Cardinality(S) : a # b => o[a] # o[b]}

\* set(config['required_cols']) - set(df.columns)
missing_cols(t, cfg) == Range(cfg.required_cols) \ Columns(t)

\* Check 1 (lines 71-78); order is the iteration order of the set missing_cols
Check1(t, cfg, order) ==
    IF missing_cols(t, cfg) # {}
    THEN CheckResult(FALSE, Msg("Missing column(s) from sheet", cfg.sheet_name, order, <<>>, 0))
    ELSE CheckResult(TRUE, Msg("All required columns present in sheet", cfg.sheet_name,
                               <<>>, <<>>, 0))

\* the conversion of one cell to the declared type (lines 85-100)
Coerce(v, dtype) ==
    CASE dtype = "datetime" -> to_datetime(v)
      [] dtype = "float" -> to_numeric(v)
      [] dtype = "str" -> astype_str(v)

\* mutant of CoerceColumn: the coerced Series is inspected for nulls but not
\* assigned back to df[col]
CoerceColumn_notassigned(st, col, dtype) ==
    IF col \notin Columns(st.df) THEN st
    ELSE LET t == SetColumn(st.df, col,
                            [r \in Rows(st.df) |-> Coerce(st.df.data[col][r], dtype)])
             invalid == IF dtype = "str" THEN <<>> ELSE NullRows(t, col)
         IN [df |-> st.df,
             type_errors |-> IF invalid # <<>>
                             THEN Append(st.type_errors, <<col, invalid>>)
                             ELSE st.type_errors,
             error_locations |-> st.error_locations \o Locations(invalid, col)]

\* one iteration of the loop of Check 2 (lines 83-100) on
\* st = [df, type_errors, error_locations]
CoerceColumn(st, col, dtype) ==
    IF col \notin Columns(st.df) THEN st
    ELSE LET t == SetColumn(st.df, col,
                            [r \in Rows(st.df) |-> Coerce(st.df.data[col][r], dtype)])
             invalid == IF dtype = "str" THEN <<>> ELSE NullRows(t, col)
         IN [df |-> t,
             type_errors |-> IF invalid # <<>>
                             THEN Append(st.type_errors, <<col, invalid>>)
                             ELSE st.type_errors,
             error_locations |-> st.error_locations \o Locations(invalid, col)]

RECURSIVE Check2Loop(_, _, _)
Check2Loop(st, columns, j) ==
    IF j > Len(columns) THEN st
    ELSE Check2Loop(CoerceColumn(st, columns[j].name, columns[j].dtype), columns, j + 1)

\* Check 2 (lines 80-106): the coerced table, the check's result, the locations added
Check2(t, cfg) ==
    LET st == Check2Loop([df |-> t, type_errors |-> <<>>, error_locations |-> <<>>],
                         cfg.columns, 1)
    IN [df |-> st.df,
        result |-> IF st.type_errors # <<>>
                   THEN CheckResult(FALSE, Msg("Invalid data types in", "", <<>>,
                                               st.type_errors, 0))
                   ELSE CheckResult(TRUE, Msg("All data types valid", "", <<>>, <<>>, 0)),
        error_locations |-> st.error_locations]

\* one iteration of the loop of Check 3 (lines 110-115) on
\* st = [missing_vals, error_locations]; the column is present
MissingInColumn(st, t, col) ==
    LET invalid == NullRows(t, col)
    IN IF invalid # <<>>
       THEN [missing_vals |-> Append(st.missing_vals, <<col, invalid>>),
             error_locations |-> st.error_locations \o Locations(invalid, col)]
       ELSE st

RECURSIVE Check3Loop(_, _, _, _)
Check3Loop(st, t, cols, j) ==
    IF j > Len(cols) THEN st
    ELSE Check3Loop(MissingInColumn(st, t, cols[j]), t, cols, j + 1)

\* df[col] at line 111 raises KeyError for a required column the table lacks
Check3Raises(t, cfg) == \E col \in Range(cfg.required_cols) : col \notin Columns(t)

\* Check 3 (lines 108-119), when it does not raise
Check3(t, cfg) ==
    LET st == Check3Loop([missing_vals |-> <<>>, error_locations |-> <<>>], t,
                         cfg.required_cols, 1)
    IN [result |-> IF st.missing_vals # <<>>
                   THEN CheckResult(FALSE, Msg("Missing values in", "", <<>>,
                                               st.missing_vals, 0))
                   ELSE CheckResult(TRUE, Msg("No missing values in required columns", "",
                                              <<>>, <<>>, 0)),
        error_locations |-> st.error_locations]

\* Series sum with skipna=True: a null cell adds nothing
RECURSIVE SumSkipNa(_, _, _, _)
SumSkipNa(t, cols, r, j) ==
    IF j > Len(cols) THEN 0
    ELSE (IF isnull(t.data[cols[j]][r]) THEN 0 ELSE t.data[cols[j]][r].n)
         + SumSkipNa(t, cols, r, j + 1)

\* mutant of checksum: sum(axis=1, skipna=False), with a null sum failing the
\* comparison
checksum_nullfails(t, cfg) ==
    [r \in Rows(t) |->
        IF \E c \in Range(cfg.numeric_cols) : isnull(t.data[c][r])
        THEN Null
        ELSE Num(SumSkipNa(t, cfg.numeric_cols, r, 1))]

\* df[config['numeric_cols']].sum(axis=1) (line 123)
checksum(t, cfg) == [r \in Rows(t) |-> Num(SumSkipNa(t, cfg.numeric_cols, r, 1))]

\* df[config['numeric_cols']] at line 123 raises KeyError for an absent column
Check4Raises(t, cfg) == \E col \in Range(cfg.numeric_cols) : col \notin Columns(t)

\* mutant of InvalidChecksumRows: df['checksum'] < 0
InvalidChecksumRows_strict(t) ==
    SelectSeq(Index(t), LAMBDA r : t.data["checksum"][r].n < 0)

\* df[df['checksum'] <= 0].index.tolist() (lines 124-126)
InvalidChecksumRows(t) == SelectSeq(Index(t), LAMBDA r : t.data["checksum"][r].n <= 0)

\* for idx in invalid_rows: for col in numeric_cols: append((idx, col))
RECURSIVE ChecksumLocations(_, _, _)
ChecksumLocations(rows, cols, j) ==
    IF j > Len(rows) THEN <<>>
    ELSE [c \in 1..Len(cols) |-> <<rows[j], cols[c]>>] \o ChecksumLocations(rows, cols, j + 1)

\* Check 4 (lines 121-133), when numeric_cols is non-empty and it does not raise
Check4(t, cfg) ==
    LET withsum == SetColumn(t, "checksum", checksum(t, cfg))
        rows == InvalidChecksumRows(withsum)
    IN [df |-> DropColumn(withsum, "checksum"),
        invalid_rows |-> rows,
        result |-> IF rows # <<>>
                   THEN CheckResult(FALSE, Msg("Invalid checksums in rows", "", <<>>, <<>>,
                                               Len(rows)))
                   ELSE CheckResult(TRUE, Msg("All checksums valid", "", <<>>, <<>>, 0)),
        error_locations |-> ChecksumLocations(rows, cfg.numeric_cols, 1)]

\* errors = [msg for passed, msg in check_results.values() if not passed] (line 136)
Errors(results) ==
    LET present == SelectSeq(CheckOrder, LAMBDA c : c \in DOMAIN results)
        failed == SelectSeq(present, LAMBDA c : ~results[c].passed)
    IN [j \in 1..Len(failed) |-> results[failed[j]].msg]

\* the whole call, for the callers: raised, or the returned tuple
validate_data(t, cfg, order) ==
    LET c1 == Check1(t, cfg, order)
        c2 == Check2(t, cfg)
    IN IF Check3Raises(c2.df, cfg) THEN [raised |-> TRUE]
       ELSE LET c3 == Check3(c2.df, cfg)
                r3 == ("Columns Check" :> c1) @@ ("Data Types Check" :> c2.result)
                      @@ ("Missing Values Check" :> c3.result)
            IN IF cfg.numeric_cols = <<>>
               THEN [raised |-> FALSE, df |-> c2.df, check_results |-> r3,
                     errors |-> Errors(r3),
                     error_locations |-> c2.error_locations \o c3.error_locations]
               ELSE IF Check4Raises(c2.df, cfg) THEN [raised |-> TRUE]
               ELSE LET c4 == Check4(c2.df, cfg)
                        r4 == r3 @@ ("Checksum Check" :> c4.result)
                    IN [raised |-> FALSE, df |-> c4.df, check_results |-> r4,
                        errors |-> Errors(r4),
                        error_locations |-> c2.error_locations \o c3.error_locations
                                            \o c4.error_locations]

----------------------------------------------------------------------------
(* Inputs of validate_data in SpecValidate.                                *)

\* The sheet configs: Valuations of DATASETS; a sheet with two numeric
\* columns, one of them not required; a sheet with no numeric column and a
\* column that is not required.
ValidateConfigs ==
    {DATASETS.Valuations[1],
     Sheet("Fees", "fees", <<Col("value", "float"), Col("fee", "float")>>,
           <<"value">>, <<"value", "fee">>),
     Sheet("Notes", "notes", <<Col("asset", "str"), Col("value", "float")>>,
           <<"asset">>, <<>>)}

\* The raw cells read from the spreadsheet for a column of each declared type:
\* an empty cell, texts the type's parser rejects, texts it accepts, numbers.
CellsOf(dtype) ==
    CASE dtype = "datetime" -> {Null, Str("bad-date"), Str("2024-01-01")}
      [] dtype = "float" -> {Null, Str("abc"), Str("1"), Num(0 - 1)}
      [] dtype = "str" -> {Null, Str("AAPL")}

\* the cells of a column the config does not name
ExtraCells == {Num(7)}

\* the config's columns, then a column named checksum the config does not name
ColumnSpecs(cfg) ==
    [j \in 1..Len(cfg.columns) |->
        [name |-> cfg.columns[j].name, cells |-> CellsOf(cfg.columns[j].dtype)]]
    \o <<[name |-> "checksum", cells |-> ExtraCells]>>

\* the Series a table can hold in slot j of specs: one only, when the table
\* lacks the column
SeriesOf(specs, present, n, j) ==
    IF j \in present THEN [0..(n - 1) -> specs[j].cells] ELSE {<<>>}

\* the table of n rows holding the columns of specs whose slots are in present
MakeTable(specs, present, n, series) ==
    LET slots == SelectSeq([j \in 1..Len(specs) |-> j], LAMBDA j : j \in present)
    IN [columns |-> [j \in 1..Len(slots) |-> specs[slots[j]].name],
        nrows |-> n,
        data |-> [c \in {specs[j].name : j \in present} |->
                     series[CHOOSE j \in present : specs[j].name = c]]]

\* t ranges over the tables of at most MaxRows rows whose columns are some of
\* the (at most four) columns of specs
IsInputTable(t, specs) ==
    \E n \in 0..MaxRows : \E present \in SUBSET (1..Len(specs)) :
        \E s1 \in SeriesOf(specs, present, n, 1) :
        \E s2 \in SeriesOf(specs, present, n, 2) :
        \E s3 \in SeriesOf(specs, present, n, 3) :
        \E s4 \in SeriesOf(specs, present, n, 4) :
            t = MakeTable(specs, present, n, <<s1, s2, s3, s4>>)

NoResults == <<>>
NoReturn ==
    [df |-> EmptyTable, check_results |-> NoResults, errors |-> <<>>,
     error_locations |-> <<>>]

----------------------------------------------------------------------------
(* The upload handler is idle in SpecValidate; validate_data is not        *)
(* activated on its own in Spec.                                           *)

HandlerIdle ==
    /\ hpc = "idle"
    /\ dataset = "Valuations"
    /\ uploaded_file = <<>>
    /\ clicked = FALSE
    /\ save_shown = FALSE
    /\ i = 1
    /\ all_dfs = <<>>
    /\ all_check_results = <<>>
    /\ all_errors = <<>>
    /\ all_valid = TRUE
    /\ k = 1
    /\ msgs = <<>>
    /\ db = <<>>
    /\ runs = 0

ValidateOff ==
    /\ df = EmptyTable
    /\ df_in = EmptyTable
    /\ config = DATASETS.Valuations[1]
    /\ check_results = NoResults
    /\ error_locations = <<>>
    /\ invalid_rows = <<>>
    /\ ret = NoReturn
    /\ pc = "off"
    /\ call = 1
    /\ first = NoReturn

----------------------------------------------------------------------------
(* SpecValidate: validate_data step by step.                               *)

\* the state on entry (lines 64-66)
Enter(t, cfg) ==
    /\ df = t
    /\ df_in = t
    /\ config = cfg
    /\ check_results = NoResults
    /\ error_locations = <<>>
    /\ invalid_rows = <<>>
    /\ pc = "check1"

InitValidate ==
    /\ \E cfg \in ValidateConfigs :
          /\ config = cfg
          /\ IsInputTable(df, ColumnSpecs(cfg))
    /\ Enter(df, config)
    /\ ret = NoReturn
    /\ call = 1
    /\ first = NoReturn
    /\ HandlerIdle

\* lines 71-78
Check1Step ==
    /\ pc = "check1"
    /\ \E order \in SetOrders(missing_cols(df, config)) :
          check_results' = ("Columns Check" :> Check1(df, config, order))
    /\ pc' = "check2"
    /\ UNCHANGED <<df, config, error_locations, invalid_rows, ret, df_in, call, first>>
    /\ UNCHANGED hvars

\* lines 80-106
Check2Step ==
    /\ pc = "check2"
    /\ LET c2 == Check2(df, config)
       IN /\ df' = c2.df
          /\ check_results' = check_results @@ ("Data Types Check" :> c2.result)
          /\ error_locations' = error_locations \o c2.error_locations
    /\ pc' = "check3"
    /\ UNCHANGED <<config, invalid_rows, ret, df_in, call, first>>
    /\ UNCHANGED hvars

\* lines 108-119
Check3Step ==
    /\ pc = "check3"
    /\ ~Check3Raises(df, config)
    /\ LET c3 == Check3(df, config)
       IN /\ check_results' = check_results @@ ("Missing Values Check" :> c3.result)
          /\ error_locations' = error_locations \o c3.error_locations
    /\ pc' = "check4"
    /\ UNCHANGED <<df, config, invalid_rows, ret, df_in, call, first>>
    /\ UNCHANGED hvars

\* line 111: KeyError leaves the function
Check3KeyError ==
    /\ pc = "check3"
    /\ Check3Raises(df, config)
    /\ pc' = "raised"
    /\ UNCHANGED <<df, config, check_results, error_locations, invalid_rows, ret, df_in,
                   call, first>>
    /\ UNCHANGED hvars

\* lines 121-133
Check4Step ==
    /\ pc = "check4"
    /\ config.numeric_cols # <<>>
    /\ ~Check4Raises(df, config)
    /\ LET c4 == Check4(df, config)
       IN /\ df' = c4.df
          /\ invalid_rows' = c4.invalid_rows
          /\ check_results' = check_results @@ ("Checksum Check" :> c4.result)
          /\ error_locations' = error_locations \o c4.error_locations
    /\ pc' = "return"
    /\ UNCHANGED <<config, ret, df_in, call, first>>
    /\ UNCHANGED hvars

\* line 122: numeric_cols is empty
Check4Skip ==
    /\ pc = "check4"
    /\ config.numeric_cols = <<>>
    /\ pc' = "return"
    /\ UNCHANGED <<df, config, check_results, error_locations, invalid_rows, ret, df_in,
                   call, first>>
    /\ UNCHANGED hvars

\* line 123: KeyError leaves the function
Check4KeyError ==
    /\ pc = "check4"
    /\ config.numeric_cols # <<>>
    /\ Check4Raises(df, config)
    /\ pc' = "raised"
    /\ UNCHANGED <<df, config, check_results, error_locations, invalid_rows, ret, df_in,
                   call, first>>
    /\ UNCHANGED hvars

\* lines 135-138
Return ==
    /\ pc = "return"
    /\ ret' = [df |-> df, check_results |-> check_results,
               errors |-> Errors(check_results), error_locations |-> error_locations]
    /\ pc' = "done"
    /\ UNCHANGED <<df, config, check_results, error_locations, invalid_rows, df_in, call,
                   first>>
    /\ UNCHANGED hvars

\* validate_data(df, config) once more, on the table the first call returned
CallAgain ==
    /\ pc = "done"
    /\ call = 1
    /\ call' = 2
    /\ first' = ret
    /\ df' = ret.df
    /\ df_in' = ret.df
    /\ check_results' = NoResults
    /\ error_locations' = <<>>
    /\ invalid_rows' = <<>>
    /\ ret' = NoReturn
    /\ pc' = "check1"
    /\ UNCHANGED config
    /\ UNCHANGED hvars

NextValidate ==
    \/ Check1Step
    \/ Check2Step
    \/ Check3Step
    \/ Check3KeyError
    \/ Check4Step
    \/ Check4Skip
    \/ Check4KeyError
    \/ Return
    \/ CallAgain

SpecValidate == InitValidate /\ [][NextValidate]_vars

----------------------------------------------------------------------------
(* Spec: the upload handler (lines 160-216).  A script run starts when a   *)
(* file is uploaded or when the Save button the last run rendered is       *)
(* clicked; the click reruns the script on the same dataset and file.      *)

ValidationErrorsFound == "Validation Errors Found - Fix issues before publishing."
AllValidationsPassed == "All Validations Passed!"
PublishedSuccessfully == "Data published successfully!"
ErrorPublishing == "Error publishing"
ErrorProcessingFile == "Error processing file"

\* the st.error calls among the messages
ErrorTexts == {ValidationErrorsFound, ErrorPublishing, ErrorProcessingFile}

sheets == DATASETS[dataset]

\* The cells of an uploaded sheet, per declared type: one the type's parser
\* accepts and one it rejects; for float, a positive and a negative number.
UploadCells(dtype) ==
    CASE dtype = "datetime" -> {Str("2024-01-01"), Str("bad-date")}
      [] dtype = "float" -> {Str("100"), Str("-5")}
      [] dtype = "str" -> {Str("AAPL")}

UploadSpecs(cfg) ==
    [j \in 1..Len(cfg.columns) |->
        [name |-> cfg.columns[j].name, cells |-> UploadCells(cfg.columns[j].dtype)]]

\* the uploaded sheets for cfg: one row, with every column of the config or
\* without its first column
UploadedSheets(cfg) ==
    LET specs == UploadSpecs(cfg)
    IN UNION {{MakeTable(specs, present, 1, <<s1, s2, s3, s4>>) :
                  s1 \in SeriesOf(specs, present, 1, 1),
                  s2 \in SeriesOf(specs, present, 1, 2),
                  s3 \in SeriesOf(specs, present, 1, 3),
                  s4 \in SeriesOf(specs, present, 1, 4)} :
              present \in {1..Len(specs), 2..Len(specs)}}

\* what pd.read_excel finds for one sheet of the config: a table, or nothing
\* it can read (no such sheet, a malformed file)
SheetsOfFile(cfg) ==
    {[readable |-> FALSE, table |-> EmptyTable]}
    \cup {[readable |-> TRUE, table |-> t] : t \in UploadedSheets(cfg)}

\* the files that can be uploaded for dataset d: what each sheet of d reads as
Files(d) ==
    {f \in [1..Len(DATASETS[d]) -> UNION {SheetsOfFile(DATASETS[d][j]) : j \in 1..Len(DATASETS[d])}] :
        \A j \in 1..Len(DATASETS[d]) : f[j] \in SheetsOfFile(DATASETS[d][j])}

\* the variables a script run starts from (lines 162-168)
StartRun ==
    /\ hpc' = "read"
    /\ i' = 1
    /\ all_dfs' = <<>>
    /\ all_check_results' = <<>>
    /\ all_errors' = <<>>
    /\ all_valid' = TRUE
    /\ k' = 1
    /\ msgs' = <<>>
    /\ save_shown' = FALSE
    /\ runs' = runs + 1
    /\ UNCHANGED db

\* lines 155-160: a dataset is selected and a file uploaded
Upload ==
    /\ hpc = "idle"
    /\ runs < MaxRuns
    /\ \E d \in DOMAIN DATASETS :
          /\ dataset' = d
          /\ uploaded_file' \in Files(d)
    /\ clicked' = FALSE
    /\ StartRun
    /\ UNCHANGED vvars

\* line 206: the Save button rendered by the last run is clicked; Streamlit
\* reruns the script with the same widget values and st.button returns True
ClickSave ==
    /\ hpc = "idle"
    /\ runs < MaxRuns
    /\ save_shown
    /\ clicked' = TRUE
    /\ StartRun
    /\ UNCHANGED <<dataset, uploaded_file>>
    /\ UNCHANGED vvars

\* line 215-216: the outer handler ends the run
ProcessingError ==
    /\ msgs' = Append(msgs, ErrorProcessingFile)
    /\ hpc' = "idle"
    /\ UNCHANGED <<dataset, uploaded_file, clicked, save_shown, i, all_dfs,
                   all_check_results, all_errors, all_valid, k, db, runs>>

\* line 173: pd.read_excel raises
ReadFails ==
    /\ hpc = "read"
    /\ i <= Len(sheets)
    /\ ~uploaded_file[i].readable
    /\ ProcessingError
    /\ UNCHANGED vvars

\* line 174: validate_data raises
ValidateRaises ==
    /\ hpc = "read"
    /\ i <= Len(sheets)
    /\ uploaded_file[i].readable
    /\ \E order \in SetOrders(missing_cols(uploaded_file[i].table, sheets[i])) :
          validate_data(uploaded_file[i].table, sheets[i], order).raised
    /\ ProcessingError
    /\ UNCHANGED vvars

\* lines 171-180: one iteration of the loop over the sheets
SheetValidated ==
    /\ hpc = "read"
    /\ i <= Len(sheets)
    /\ uploaded_file[i].readable
    /\ \E order \in SetOrders(missing_cols(uploaded_file[i].table, sheets[i])) :
          LET r == validate_data(uploaded_file[i].table, sheets[i], order)
              table_name == sheets[i].table_name
          IN /\ ~r.raised
             /\ all_dfs' = (table_name :> r.df) @@ all_dfs
             /\ all_check_results' = (table_name :> r.check_results) @@ all_check_results
             /\ all_errors' = all_errors \o r.errors
             /\ all_valid' = IF r.errors # <<>> THEN FALSE ELSE all_valid
    /\ i' = i + 1
    /\ UNCHANGED <<hpc, dataset, uploaded_file, clicked, save_shown, k, msgs, db, runs>>
    /\ UNCHANGED vvars

\* mutant of Display: "if st.button('Save')" without all_valid
Display_noguard ==
    /\ hpc = "read"
    /\ i > Len(sheets)
    /\ msgs' = Append(msgs, IF all_errors # <<>> THEN ValidationErrorsFound
                                                 ELSE AllValidationsPassed)
    /\ save_shown' = TRUE
    /\ hpc' = IF clicked THEN "save" ELSE "idle"
    /\ UNCHANGED <<dataset, uploaded_file, clicked, i, all_dfs, all_check_results,
                   all_errors, all_valid, k, db, runs>>
    /\ UNCHANGED vvars

\* lines 182-206: the summary, then the Save button if every sheet is valid
Display ==
    /\ hpc = "read"
    /\ i > Len(sheets)
    /\ msgs' = Append(msgs, IF all_errors # <<>> THEN ValidationErrorsFound
                                                 ELSE AllValidationsPassed)
    /\ save_shown' = all_valid
    /\ hpc' = IF all_valid /\ clicked THEN "save" ELSE "idle"
    /\ UNCHANGED <<dataset, uploaded_file, clicked, i, all_dfs, all_check_results,
                   all_errors, all_valid, k, db, runs>>
    /\ UNCHANGED vvars

\* lines 208-211: df.to_sql(table_name, engine, if_exists='append') succeeds
SaveSheet ==
    /\ hpc = "save"
    /\ k <= Len(sheets)
    /\ db' = Append(db, [table_name |-> sheets[k].table_name,
                         df |-> all_dfs[sheets[k].table_name]])
    /\ k' = k + 1
    /\ UNCHANGED <<hpc, dataset, uploaded_file, clicked, save_shown, i, all_dfs,
                   all_check_results, all_errors, all_valid, msgs, runs>>
    /\ UNCHANGED vvars

\* mutant of SaveFails: the sheets this run appended are rolled back
SaveFails_rollback ==
    /\ hpc = "save"
    /\ k <= Len(sheets)
    /\ db' = SubSeq(db, 1, Len(db) - (k - 1))
    /\ msgs' = Append(msgs, ErrorPublishing)
    /\ hpc' = "idle"
    /\ UNCHANGED <<dataset, uploaded_file, clicked, save_shown, i, all_dfs,
                   all_check_results, all_errors, all_valid, k, runs>>
    /\ UNCHANGED vvars

\* lines 211, 213-214: to_sql raises SQLAlchemyError
SaveFails ==
    /\ hpc = "save"
    /\ k <= Len(sheets)
    /\ msgs' = Append(msgs, ErrorPublishing)
    /\ hpc' = "idle"
    /\ UNCHANGED <<dataset, uploaded_file, clicked, save_shown, i, all_dfs,
                   all_check_results, all_errors, all_valid, k, db, runs>>
    /\ UNCHANGED vvars

\* line 212: every sheet was appended
Published ==
    /\ hpc = "save"
    /\ k > Len(sheets)
    /\ msgs' = Append(msgs, PublishedSuccessfully)
    /\ hpc' = "idle"
    /\ UNCHANGED <<dataset, uploaded_file, clicked, save_shown, i, all_dfs,
                   all_check_results, all_errors, all_valid, k, db, runs>>
    /\ UNCHANGED vvars

Init == ValidateOff /\ HandlerIdle

Next ==
    \/ Upload
    \/ ClickSave
    \/ ReadFails
    \/ ValidateRaises
    \/ SheetValidated
    \/ Display
    \/ SaveSheet
    \/ SaveFails
    \/ Published

Spec == Init /\ [][Next]_vars

----------------------------------------------------------------------------
(* Claims about validate_data, checked under SpecValidate.                 *)

Returned == pc = "done"
Ended == pc \in {"done", "raised"}

\* the sheet config is one of DATASETS
Registered == \E d \in DOMAIN DATASETS : config \in Range(DATASETS[d])

Dtype(cfg, c) ==
    cfg.columns[CHOOSE j \in 1..Len(cfg.columns) : cfg.columns[j].name = c].dtype

\* the rows a failure message lists under column c
RowsListed(detail, c) ==
    UNION {Range(detail[j][2]) : j \in {x \in 1..Len(detail) : detail[x][1] = c}}

\* the columns a failure message lists
ColumnsListed(detail) == {detail[j][1] : j \in 1..Len(detail)}

\* the cells of the table passed in that lie in a present column declared
\* datetime or float
TypedCells ==
    {<<r, c>> \in Rows(df_in) \X (Columns(df_in) \cap ColumnNames(config)) :
        Dtype(config, c) \in {"datetime", "float"}}

\* a text the declared type's parser rejects
Unparseable(v, dtype) ==
    /\ v.k = "str"
    /\ v.s \notin (IF dtype = "datetime" THEN DOMAIN DateOfText ELSE DOMAIN FloatOfText)

\* a value of the declared type, or a text its parser accepts
Parseable(v, dtype) ==
    \/ v.k = dtype
    \/ /\ v.k = "str"
       /\ v.s \in (IF dtype = "datetime" THEN DOMAIN DateOfText ELSE DOMAIN FloatOfText)

Parsed(v, dtype) ==
    IF v.k = dtype THEN v
    ELSE IF dtype = "datetime" THEN Timestamp(DateOfText[v.s]) ELSE Num(FloatOfText[v.s])

\* C2: validate_data never aborts on a data-quality problem: every call
\* with a sheet config of DATASETS, also on a table that lacks required
\* columns, ends by returning, with a result for the Columns, Data Types and
\* Missing Values checks and, when numeric_cols is non-empty, for the
\* Checksum check.
C2_NeverAborts ==
    (Registered /\ Ended) =>
        /\ Returned
        /\ DOMAIN ret.check_results =
              {"Columns Check", "Data Types Check", "Missing Values Check"}
              \cup (IF config.numeric_cols # <<>> THEN {"Checksum Check"} ELSE {})

\* C3: once validate_data, called with a sheet config of DATASETS, has ended
\* on a table that lacks a required column, the caller holds a failed Columns
\* Check whose message names exactly the missing columns, in the order of
\* required_cols; on a table that lacks none the Columns Check passes.
C3_PresenceCheckReported ==
    (Registered /\ Ended) =>
        /\ Returned
        /\ LET res == ret.check_results["Columns Check"]
               missing == SelectSeq(config.required_cols,
                                    LAMBDA c : c \notin Columns(df_in))
           IN IF missing # <<>>
              THEN ~res.passed /\ res.msg.cols = missing
              ELSE res.passed

\* C4: when validate_data returns, every cell of a present datetime or float
\* column whose source value the type's parser rejects is null in the
\* returned table, its (row, column) is among the error locations and the
\* Data Types Check has failed; every cell the parser accepts holds its
\* parsed value and is not listed by the Data Types Check; and the Data
\* Types Check lists no column declared str.
C4_Coercion ==
    Returned =>
        LET res == ret.check_results["Data Types Check"]
        IN /\ \A rc \in TypedCells :
                 LET r == rc[1]
                     c == rc[2]
                     v == df_in.data[c][r]
                 IN /\ Unparseable(v, Dtype(config, c)) =>
                          /\ isnull(ret.df.data[c][r])
                          /\ <<r, c>> \in Range(ret.error_locations)
                          /\ ~res.passed
                          /\ r \in RowsListed(res.msg.detail, c)
                    /\ Parseable(v, Dtype(config, c)) =>
                          /\ ret.df.data[c][r] = Parsed(v, Dtype(config, c))
                          /\ r \notin RowsListed(res.msg.detail, c)
           /\ \A c \in ColumnsListed(res.msg.detail) : Dtype(config, c) # "str"
           /\ res.passed = (res.msg.detail = <<>>)

\* a column holds a cell the parser rejects and a cell it accepts
C4_Witness ==
    /\ Returned
    /\ \E rc1 \in TypedCells : \E rc2 \in TypedCells :
          /\ rc1[2] = rc2[2]
          /\ Unparseable(df_in.data[rc1[2]][rc1[1]], Dtype(config, rc1[2]))
          /\ Parseable(df_in.data[rc2[2]][rc2[1]], Dtype(config, rc2[2]))
          /\ df_in.data[rc2[2]][rc2[1]].k = "str"

\* the sum of the non-null numeric cells of row r of the returned table
RECURSIVE NumericSum(_, _)
NumericSum(r, cols) ==
    IF cols = {} THEN 0
    ELSE LET c == CHOOSE x \in cols : TRUE
         IN (IF isnull(ret.df.data[c][r]) THEN 0 ELSE ret.df.data[c][r].n)
            + NumericSum(r, cols \ {c})

RowSum(r) == NumericSum(r, Range(config.numeric_cols))

\* C5: when validate_data returns and numeric_cols is non-empty: a row whose
\* numeric columns sum to more than 0 is not among the invalid checksum rows
\* and has no error location other than those of its null cells; for a row
\* whose sum is <= 0 every (row, c), c in numeric_cols, is an error location;
\* the Checksum Check fails iff some row has a sum <= 0, and its message
\* then carries the number of such rows.
C5_Checksum ==
    (Returned /\ config.numeric_cols # <<>>) =>
        LET res == ret.check_results["Checksum Check"]
            bad == {r \in Rows(ret.df) : RowSum(r) <= 0}
        IN /\ \A r \in Rows(ret.df) \ bad :
                 /\ r \notin Range(invalid_rows)
                 /\ \A c \in Columns(ret.df) :
                       <<r, c>> \in Range(ret.error_locations) => isnull(ret.df.data[c][r])
           /\ \A r \in bad : \A c \in Range(config.numeric_cols) :
                 <<r, c>> \in Range(ret.error_locations)
           /\ res.passed = (bad = {})
           /\ ~res.passed => res.msg.count = Cardinality(bad)

\* two numeric columns; one row sums to 0 without a null cell, another to > 0
C5_Witness ==
    /\ Returned
    /\ Len(config.numeric_cols) > 1
    /\ \E r1, r2 \in Rows(ret.df) :
          /\ RowSum(r1) = 0
          /\ \A c \in Range(config.numeric_cols) : ~isnull(ret.df.data[c][r1])
          /\ RowSum(r2) > 0

\* the rows with a null numeric cell, after coercion
NullNumericRows ==
    {r \in Rows(ret.df) : \E c \in Range(config.numeric_cols) : isnull(ret.df.data[c][r])}

\* C6 as stated: when validate_data returns and numeric_cols is non-empty,
\* every row with at least one null numeric cell is among the invalid
\* checksum rows.
C6_NullCellFailsChecksum ==
    (Returned /\ config.numeric_cols # <<>>) =>
        \A r \in NullNumericRows : r \in Range(invalid_rows)

\* C6 amended: a null numeric cell counts as 0 in the row's sum: a row with a
\* null numeric cell is among the invalid checksum rows iff its non-null
\* numeric cells sum to <= 0; so it always is when all its numeric cells are
\* null, as with a single numeric column.
C6_NullCountsAsZero ==
    (Returned /\ config.numeric_cols # <<>>) =>
        \A r \in NullNumericRows :
            /\ (r \in Range(invalid_rows)) = (RowSum(r) <= 0)
            /\ (\A c \in Range(config.numeric_cols) : isnull(ret.df.data[c][r]))
                  => r \in Range(invalid_rows)

\* a row with one null numeric cell passes the comparison, another row with a
\* null numeric cell fails it
C6_Witness ==
    /\ Returned
    /\ Len(config.numeric_cols) > 1
    /\ \E r1, r2 \in NullNumericRows :
          /\ r1 \notin Range(invalid_rows)
          /\ r2 \in Range(invalid_rows)

\* C7: when the first call reported no failed check, the second call, on the
\* table the first returned, returns the same check results, no error
\* location and the same table.
C7_Idempotent ==
    (Returned /\ call = 2 /\ first.errors = <<>>) =>
        /\ ret.check_results = first.check_results
        /\ ret.errors = <<>>
        /\ ret.error_locations = <<>>
        /\ ret.df = first.df

\* the second call has returned on a valid table of two rows in which the
\* first call had parsed texts into a date and a number
C7_Witness ==
    /\ Returned
    /\ call = 2
    /\ first.errors = <<>>
    /\ first.df.nrows > 1
    /\ \E c1, c2 \in Columns(first.df) :
          /\ first.df.data[c1][0].k = "datetime"
          /\ first.df.data[c2][0].k = "float"

\* C9: when validate_data, called with a sheet config of DATASETS, returns,
\* every cell of a required column that was null in the table passed in
\* makes the Missing Values Check fail, is listed under its column in the
\* message and is an error location.
C9_NullInputReported ==
    (Registered /\ Returned) =>
        \A c \in Range(config.required_cols) : \A r \in Rows(df_in) :
            isnull(df_in.data[c][r]) =>
                LET res == ret.check_results["Missing Values Check"]
                IN /\ ~res.passed
                   /\ r \in RowsListed(res.msg.detail, c)
                   /\ <<r, c>> \in Range(ret.error_locations)

\* C10: when validate_data, called with a sheet config of DATASETS, returns,
\* the returned table has the columns and the rows of the table passed in,
\* and every column the config does not name holds the cells it held.
C10_Frame ==
    (Registered /\ Returned) =>
        /\ Columns(ret.df) = Columns(df_in)
        /\ ret.df.nrows = df_in.nrows
        /\ \A c \in Columns(df_in) \ ColumnNames(config) :
              c \in Columns(ret.df) /\ ret.df.data[c] = df_in.data[c]

----------------------------------------------------------------------------
(* Claims about the upload handler, checked under Spec.                    *)

\* every sheet of the dataset was read and validated in this run, and none
\* of its checks failed
EverySheetPassed ==
    \A j \in 1..Len(sheets) :
        /\ sheets[j].table_name \in DOMAIN all_check_results
        /\ \A c \in DOMAIN all_check_results[sheets[j].table_name] :
              all_check_results[sheets[j].table_name][c].passed

\* C1: a step of a run appends a sheet to the database only if every sheet
\* of the dataset was read and validated in that run with no failed check;
\* so a run in which a sheet has a failed check, or in which reading or
\* validating a sheet raised, appends nothing.
C1_PersistOnlyIfAllValid == [][db' # db => EverySheetPassed]_vars

\* both sheets of P&L were appended by one run
C1_Witness ==
    /\ dataset = "PnL"
    /\ hpc = "save"
    /\ k > 2
    /\ Len(db) > 1

\* the entry to_sql appends for sheet j of the dataset
Persisted(j) ==
    [table_name |-> sheets[j].table_name, df |-> all_dfs[sheets[j].table_name]]

ErrorCount(m) == Cardinality({j \in 1..Len(m) : m[j] \in ErrorTexts})

\* C8: the database changes only by the Save loop appending the sheet at its
\* index k and moving to k + 1, so the sheets are appended one at a time in
\* sheet order and, during and after the loop, the last k - 1 entries of the
\* database are sheets 1..k-1; a failing persist call for sheet k leaves the
\* database as it is (no rollback) and ends the run at k, with the
\* publishing error as the run's only error and no success message for the
\* publication.
C8_BestEffortAppend ==
    [][/\ db' # db =>
            /\ hpc = "save"
            /\ k <= Len(sheets)
            /\ db' = Append(db, Persisted(k))
            /\ k' = k + 1
       /\ (hpc = "save" /\ hpc' = "idle" /\ k <= Len(sheets)) =>
            /\ db' = db
            /\ k' = k
            /\ Len(db') >= k - 1
            /\ \A j \in 1..(k - 1) : db'[Len(db') - (k - 1) + j] = Persisted(j)
            /\ msgs'[Len(msgs')] = ErrorPublishing
            /\ ErrorCount(msgs') = 1
            /\ PublishedSuccessfully \notin Range(msgs')
       /\ (hpc' = "idle" /\ PublishedSuccessfully \in Range(msgs')) => k' > Len(sheets)
      ]_vars

\* the persist call for the second sheet of P&L failed after the first sheet
\* was appended
C8_Witness ==
    /\ dataset = "PnL"
    /\ hpc = "idle"
    /\ msgs # <<>>
    /\ msgs[Len(msgs)] = ErrorPublishing
    /\ k = 2
    /\ db # <<>>
    /\ db[Len(db)] = Persisted(1)

====
